---------------------------- MODULE Spec2Model ----------------------------
(***************************************************************************)
(* A model of photo_sorter.py: the filename patterns and                   *)
(* extract_date_from_name, the lazy discovery of iter_candidate_files,     *)
(* move_file with its disambiguation loop, classify_photos and main with   *)
(* its Logger.                                                             *)
(*                                                                         *)
(* A file name is a sequence of one-character strings, a path is a         *)
(* sequence of names below the directory the program works in.  The trees  *)
(* hold directories and regular files only (no symbolic links), every path *)
(* is absolute and normalised, so Path.resolve() returns the path it is    *)
(* given and raises nothing.                                               *)
(***************************************************************************)
EXTENDS Integers, Sequences, FiniteSets, TLC

VARIABLES
    dirs,             \* the directories of the tree: a set of paths
    files,            \* the regular files: path -> content
    search_root,      \* classify_photos: parameter
    destination_root, \* classify_photos: parameter
    pc,               \* where classify_photos is: idle, walk, done, raised, killed
    pendingDirs,      \* rglob: directories found and not yet listed
    curDir,           \* rglob: the directory whose listing is being consumed
    snap,             \* rglob: the listing of curDir, as taken
    entries,          \* rglob: the part of the listing not yet consumed
    moved,            \* classify_photos: local counter
    skipped,          \* classify_photos: local counter
    run,              \* how many times classify_photos has been called
    hist,             \* what the calls did: records of yields, skips and moves
    start,            \* the tree when the current call began, and how the call before ended
    initial,          \* the tree before the first call
    mpc,              \* where main is
    logText,          \* the lines of the log file, as tags
    filename,         \* extract_date_from_name: argument
    result            \* extract_date_from_name: return value

vars == <<dirs, files, search_root, destination_root, pc, pendingDirs, curDir, snap,
          entries, moved, skipped, run, hist, start, initial, mpc, logText,
          filename, result>>

None == <<"None">>

---------------------------------------------------------------------------
(* Characters and strings *)

DigitChars == {"0", "1", "2", "3", "4", "5", "6", "7", "8", "9"}

UpperChars == <<"A", "B", "C", "D", "E", "F", "G", "H", "I", "J", "K", "L", "M",
                "N", "O", "P", "Q", "R", "S", "T", "U", "V", "W", "X", "Y", "Z">>

LowerChars == <<"a", "b", "c", "d", "e", "f", "g", "h", "i", "j", "k", "l", "m",
                "n", "o", "p", "q", "r", "s", "t", "u", "v", "w", "x", "y", "z">>

\* The case folding re.IGNORECASE compares with.
Lower(c) ==
    IF \E i \in 1..Len(UpperChars) : UpperChars[i] = c
    THEN LowerChars[CHOOSE i \in 1..Len(UpperChars) : UpperChars[i] = c]
    ELSE c

LineFeed == "\n"

\* str.rfind('.'), as a 1-based position, 0 when there is none.
RFindDot(name) ==
    IF \E i \in 1..Len(name) : name[i] = "."
    THEN CHOOSE i \in 1..Len(name) : name[i] = "." /\ \A j \in (i+1)..Len(name) : name[j] # "."
    ELSE 0

\* PurePath.stem: the name up to its last dot, when that dot is neither the
\* first nor the last character.
Stem(name) ==
    LET i == RFindDot(name)
    IN  IF 1 < i /\ i < Len(name) THEN SubSeq(name, 1, i - 1) ELSE name

\* PurePath.suffix: the rest of the name.
Suffix(name) ==
    LET i == RFindDot(name)
    IN  IF 1 < i /\ i < Len(name) THEN SubSeq(name, i, Len(name)) ELSE <<>>

---------------------------------------------------------------------------
(* The patterns, as the sequences of items re.compile is given *)

Bol == [t |-> "bol", c |-> "", lo |-> 0, hi |-> 0, g |-> ""]
Eol == [t |-> "eol", c |-> "", lo |-> 0, hi |-> 0, g |-> ""]
Lit(ch) == [t |-> "lit", c |-> ch, lo |-> 1, hi |-> 1, g |-> ""]
Lits(str) == [i \in 1..Len(str) |-> Lit(str[i])]
\* \d{lo,hi}, in group g
DigitRun(low, high, grp) == [t |-> "digit", c |-> "", lo |-> low, hi |-> high, g |-> grp]
\* .* (low = 0) and .+ (low = 1); hi = -1: no upper limit
DotRun(low, grp) == [t |-> "dot", c |-> "", lo |-> low, hi |-> -1, g |-> grp]

\* ^(?P<date>\d{8})_\d{4,6}.*$
PATTERN_DATE_TIME ==
    [ignorecase |-> FALSE,
     items |-> <<Bol, DigitRun(8, 8, "date"), Lit("_"), DigitRun(4, 6, ""), DotRun(0, ""), Eol>>]

\* ^screenshot_(?P<date>\d{8})_\d{4,6}_(?P<tail>.+)$, re.IGNORECASE
PATTERN_SCREENSHOT ==
    [ignorecase |-> TRUE,
     items |-> <<Bol>> \o Lits(<<"s", "c", "r", "e", "e", "n", "s", "h", "o", "t", "_">>)
               \o <<DigitRun(8, 8, "date"), Lit("_"), DigitRun(4, 6, ""), Lit("_"),
                    DotRun(1, "tail"), Eol>>]

\* ^videocapture_(?P<date>\d{8}).*$, re.IGNORECASE
PATTERN_VIDEO_CAPTURE ==
    [ignorecase |-> TRUE,
     items |-> <<Bol>>
               \o Lits(<<"v", "i", "d", "e", "o", "c", "a", "p", "t", "u", "r", "e", "_">>)
               \o <<DigitRun(8, 8, "date"), DotRun(0, ""), Eol>>]

---------------------------------------------------------------------------
(* Pattern.match: a backtracking match from the start of the string *)

NoMatch == [ok |-> FALSE, date |-> <<>>]

\* Whether one character is matched by a repeated item.
ItemTakes(item, ch) ==
    CASE item.t = "digit" -> ch \in DigitChars
      [] item.t = "dot"   -> ch # LineFeed
      [] OTHER            -> FALSE

\* How many characters from pos on the item can take, at most.
RECURSIVE RunLength(_, _, _, _)
RunLength(item, s, pos, n) ==
    IF pos + n <= Len(s) /\ ItemTakes(item, s[pos + n]) /\ (item.hi = -1 \/ n < item.hi)
    THEN RunLength(item, s, pos, n + 1)
    ELSE n

RECURSIVE MatchFrom(_, _, _, _, _)
RECURSIVE TryRepeat(_, _, _, _, _, _)

\* Items i.. of the pattern against s from pos; cap is the date group so far.
MatchFrom(pat, i, s, pos, cap) ==
    IF i > Len(pat.items) THEN [ok |-> TRUE, date |-> cap]
    ELSE LET item == pat.items[i]
         IN  CASE item.t = "bol" ->
                    IF pos = 1 THEN MatchFrom(pat, i + 1, s, pos, cap) ELSE NoMatch
               [] item.t = "eol" ->
                    \* $ matches at the end, and before a line feed that ends the string
                    IF pos = Len(s) + 1 \/ (pos = Len(s) /\ s[pos] = LineFeed)
                    THEN MatchFrom(pat, i + 1, s, pos, cap) ELSE NoMatch
               [] item.t = "lit" ->
                    IF pos <= Len(s)
                       /\ (IF pat.ignorecase THEN Lower(s[pos]) = Lower(item.c)
                                             ELSE s[pos] = item.c)
                    THEN MatchFrom(pat, i + 1, s, pos + 1, cap) ELSE NoMatch
               [] OTHER ->
                    TryRepeat(pat, i, s, pos, cap, RunLength(item, s, pos, 0))

\* A greedy repetition: the longest run first, then shorter ones.
TryRepeat(pat, i, s, pos, cap, n) ==
    LET item == pat.items[i]
    IN  IF n < item.lo THEN NoMatch
        ELSE LET r == MatchFrom(pat, i + 1, s, pos + n,
                                IF item.g = "date" THEN SubSeq(s, pos, pos + n - 1) ELSE cap)
             IN  IF r.ok THEN r ELSE TryRepeat(pat, i, s, pos, cap, n - 1)

PatternMatch(pat, s) == MatchFrom(pat, 1, s, 1, <<>>)

Patterns == <<PATTERN_DATE_TIME, PATTERN_SCREENSHOT, PATTERN_VIDEO_CAPTURE>>

RECURSIVE FirstMatch(_, _, _)
FirstMatch(pats, k, stem) ==
    IF k > Len(pats) THEN None
    ELSE LET m == PatternMatch(pats[k], stem)
         IN  IF m.ok THEN m.date ELSE FirstMatch(pats, k + 1, stem)

\* A variant that matches the whole name, extension included.
ExtractFromWholeName(name) == FirstMatch(Patterns, 1, name)

extract_date_from_name(name) == FirstMatch(Patterns, 1, Stem(name))

---------------------------------------------------------------------------
(* Paths and the tree *)

Parent(path) == SubSeq(path, 1, Len(path) - 1)
PathName(path) == path[Len(path)]
\* PurePath.parents: every proper ancestor
Parents(path) == {SubSeq(path, 1, k) : k \in 0..(Len(path) - 1)}
Prefixes(path) == {SubSeq(path, 1, k) : k \in 0..Len(path)}

Exists(d, f, path) == path \in d \/ path \in DOMAIN f
\* A variant that lists everything below dir, not only what is directly in it.
ListingDeep(d, f, dir) == {p \in d \cup DOMAIN f : dir \in Parents(p)}

\* os.scandir(dir): the entries directly inside dir
Listing(d, f, dir) == {p \in d \cup DOMAIN f : Len(p) = Len(dir) + 1 /\ Parent(p) = dir}

---------------------------------------------------------------------------
(* iter_candidate_files: the exclusion test *)

\* A variant that also skips the files directly inside exclude_path.
ExcludedWhole(path, exclude_path) == exclude_path \in Parents(path)

\* A variant that skips nothing.
ExcludedNever(path, exclude_path) == FALSE

\* path_resolved.parent != exclude_resolved and exclude_resolved in path_resolved.parents
Excluded(path, exclude_path) ==
    Parent(path) # exclude_path /\ exclude_path \in Parents(path)

---------------------------------------------------------------------------
(* move_file *)

DigitSeq == <<"0", "1", "2", "3", "4", "5", "6", "7", "8", "9">>

\* str(n) of a positive integer
RECURSIVE DecStr(_)
DecStr(n) ==
    IF n < 10 THEN <<DigitSeq[n + 1]>>
    ELSE DecStr(n \div 10) \o <<DigitSeq[(n % 10) + 1]>>

\* PurePath.with_stem: the new stem followed by the old suffix
with_stem(path, stem) == Append(Parent(path), stem \o Suffix(PathName(path)))

\* A variant that takes the first candidate without looking whether it exists.
FirstCandidate(d, f, destination, duplicate) ==
    with_stem(destination, Stem(PathName(destination)) \o <<"_">> \o DecStr(duplicate))

\* the while loop of move_file: the first candidate that does not exist
RECURSIVE FindCandidate(_, _, _, _)
FindCandidate(d, f, destination, duplicate) ==
    LET candidate == with_stem(destination,
                               Stem(PathName(destination)) \o <<"_">> \o DecStr(duplicate))
    IN  IF ~Exists(d, f, candidate) THEN candidate
        ELSE FindCandidate(d, f, destination, duplicate + 1)

\* Path.mkdir(parents=True, exist_ok=True): raises when the path or one of its
\* ancestors is a regular file.
MkdirOk(f, dir) == \A p \in Prefixes(dir) : p \notin DOMAIN f
Mkdir(d, dir) == d \cup Prefixes(dir)

\* A variant that copies: the source stays.
RenameKeepingSource(f, src, destination) ==
    [p \in DOMAIN f \cup {destination} |-> IF p = destination THEN f[src] ELSE f[p]]

\* shutil.move(src, destination) onto a path that does not exist: a rename
Rename(f, src, destination) ==
    [p \in (DOMAIN f \ {src}) \cup {destination} |->
        IF p = destination THEN f[src] ELSE f[p]]

\* A variant without the test of destination.exists().
DestinationUnchecked(d, f, src, dest_dir) == Append(dest_dir, PathName(src))

\* A variant that builds the destination in the parent of dest_dir.
DestinationAbove(d, f, src, dest_dir) ==
    LET destination == Append(Parent(dest_dir), PathName(src))
    IN  IF Exists(d, f, destination) THEN FindCandidate(d, f, destination, 1)
        ELSE destination

\* The destination move_file settles on.
Destination(d, f, src, dest_dir) ==
    LET destination == Append(dest_dir, PathName(src))
    IN  IF Exists(d, f, destination) THEN FindCandidate(d, f, destination, 1)
        ELSE destination

\* move_file(src, dest_dir) on the tree (d, f): the tree after it, or raised.
move_file(d, f, src, dest_dir) ==
    IF ~MkdirOk(f, dest_dir)
    THEN [raised |-> TRUE, dirs |-> d, files |-> f, dst |-> src]
    ELSE LET d2 == Mkdir(d, dest_dir)
             destination == Destination(d2, f, src, dest_dir)
         IN  [raised |-> FALSE, dirs |-> d2, files |-> Rename(f, src, destination),
              dst |-> destination]

---------------------------------------------------------------------------
(* classify_photos, one step of its loop at a time *)

NoDir == <<"", "">>

\* A variant that compares with the parent of dest_dir.
AlreadySortedRoot(file_path, dest_dir) == Parent(file_path) = Parent(dest_dir)

\* file_path.resolve().parent == dest_dir.resolve()
AlreadySorted(file_path, dest_dir) == Parent(file_path) = dest_dir

Event(kind, src, dst, before) ==
    [run |-> run, kind |-> kind, src |-> src, dst |-> dst,
     content |-> files[src], before |-> before]

\* classify_photos(search_root, destination_root) is called: the counters are
\* zeroed and the generator of iter_candidate_files is created (nothing is
\* listed before the first next()).
BeginCall ==
    /\ run' = run + 1
    /\ moved' = 0
    /\ skipped' = 0
    /\ pendingDirs' = IF search_root \in dirs THEN {search_root} ELSE {}
    /\ curDir' = NoDir
    /\ snap' = {}
    /\ entries' = {}
    /\ start' = [dirs |-> dirs, files |-> files, prev |-> pc]
    /\ pc' = "walk"

MaxRuns == 2

Call ==
    /\ mpc = "none"
    /\ pc \in {"idle", "done", "raised", "killed"}
    /\ run < MaxRuns
    /\ BeginCall
    /\ UNCHANGED <<dirs, files, search_root, destination_root, hist, initial, mpc,
                   logText, filename, result>>

\* rglob reaches a directory and lists it.
ListDir ==
    /\ pc = "walk"
    /\ curDir = NoDir
    /\ \E d \in pendingDirs :
        /\ pendingDirs' = pendingDirs \ {d}
        /\ curDir' = d
        /\ snap' = Listing(dirs, files, d)
        /\ entries' = Listing(dirs, files, d)
    /\ UNCHANGED <<dirs, files, search_root, destination_root, pc, moved, skipped, run,
                   hist, start, initial, mpc, logText, filename, result>>

\* An entry of the listing that is not a file (path.is_file() is false): a
\* directory is walked later, nothing is yielded.
WalkSubdir ==
    /\ pc = "walk"
    /\ \E e \in entries :
        /\ e \notin DOMAIN files
        /\ entries' = entries \ {e}
        /\ pendingDirs' = IF e \in dirs THEN pendingDirs \cup {e} ELSE pendingDirs
    /\ UNCHANGED <<dirs, files, search_root, destination_root, pc, curDir, snap, moved,
                   skipped, run, hist, start, initial, mpc, logText, filename, result>>

\* A file of the listing inside a subdirectory of exclude_path: continue.
WalkExcluded ==
    /\ pc = "walk"
    /\ \E e \in entries :
        /\ e \in DOMAIN files
        /\ Excluded(e, destination_root)
        /\ entries' = entries \ {e}
    /\ UNCHANGED <<dirs, files, search_root, destination_root, pc, pendingDirs, curDir,
                   snap, moved, skipped, run, hist, start, initial, mpc, logText,
                   filename, result>>

\* A file is yielded and the body of the for loop of classify_photos runs on it.
ClassifyFile ==
    /\ pc = "walk"
    /\ \E file_path \in entries :
        /\ file_path \in DOMAIN files
        /\ ~Excluded(file_path, destination_root)
        /\ entries' = entries \ {file_path}
        /\ LET date_str == extract_date_from_name(PathName(file_path))
               dest_dir == Append(destination_root, date_str)
               m == move_file(dirs, files, file_path, dest_dir)
           IN  IF date_str = None
               THEN /\ skipped' = skipped + 1
                    /\ hist' = hist \cup {Event("skipped", file_path, file_path, {})}
                    /\ UNCHANGED <<dirs, files, moved, pc>>
               ELSE IF AlreadySorted(file_path, dest_dir)
               THEN /\ skipped' = skipped + 1
                    /\ hist' = hist \cup {Event("skipped", file_path, file_path, {})}
                    /\ UNCHANGED <<dirs, files, moved, pc>>
               ELSE IF m.raised
               THEN /\ pc' = "raised"
                    /\ hist' = hist \cup {Event("raised", file_path, file_path, {})}
                    /\ UNCHANGED <<dirs, files, moved, skipped>>
               ELSE /\ dirs' = m.dirs
                    /\ files' = m.files
                    /\ moved' = moved + 1
                    /\ hist' = hist \cup {Event("moved", file_path, m.dst,
                                                Listing(m.dirs, files, dest_dir))}
                    /\ UNCHANGED <<skipped, pc>>
    /\ UNCHANGED <<search_root, destination_root, pendingDirs, curDir, snap, run, start,
                   initial, mpc, logText, filename, result>>

\* The listing of curDir is used up.  Its subdirectories were found in the
\* listing; an implementation of rglob that lists a directory a second time
\* for its subdirectories also finds those created since.
FinishDir ==
    /\ pc = "walk"
    /\ curDir # NoDir
    /\ entries = {}
    /\ \E late \in {{}, {p \in Listing(dirs, files, curDir) : p \in dirs /\ p \notin snap}} :
        pendingDirs' = pendingDirs \cup late
    /\ curDir' = NoDir
    /\ snap' = {}
    /\ UNCHANGED <<dirs, files, search_root, destination_root, pc, entries, moved, skipped,
                   run, hist, start, initial, mpc, logText, filename, result>>

\* The generator is exhausted: return moved, skipped.
Return ==
    /\ pc = "walk"
    /\ curDir = NoDir
    /\ pendingDirs = {}
    /\ pc' = "done"
    /\ UNCHANGED <<dirs, files, search_root, destination_root, pendingDirs, curDir, snap,
                   entries, moved, skipped, run, hist, start, initial, mpc, logText,
                   filename, result>>

\* The process is interrupted between two steps of the loop.  The calls after
\* the first are left to run to their end.
Kill ==
    /\ mpc = "none"
    /\ pc = "walk"
    /\ run = 1
    /\ pc' = "killed"
    /\ UNCHANGED <<dirs, files, search_root, destination_root, pendingDirs, curDir, snap,
                   entries, moved, skipped, run, hist, start, initial, mpc, logText,
                   filename, result>>

---------------------------------------------------------------------------
(* The trees classify_photos is run on *)

N_TS == <<"2", "0", "2", "4", "0", "1", "0", "1", "_", "1", "2", "0", "0", ".", "j", "p", "g">>
N_TS1 == <<"2", "0", "2", "4", "0", "1", "0", "1", "_", "1", "2", "0", "0", "_", "1", ".", "j", "p", "g">>
N_SHOT == <<"S", "c", "r", "e", "e", "n", "s", "h", "o", "t", "_", "2", "0", "2", "4", "0", "1", "0", "1", "_", "1", "3", "0", "0", "0", "0", "_", "x", ".", "p", "n", "g">>
N_VID == <<"V", "i", "d", "e", "o", "C", "a", "p", "t", "u", "r", "e", "_", "2", "0", "2", "4", "0", "1", "0", "2", ".", "m", "p", "4">>
N_NOT == <<"n", "o", "t", "a", "p", "h", "o", "t", "o", ".", "t", "x", "t">>
\* a regular file named as a date folder would be
N_KEY == <<"2", "0", "2", "4", "0", "1", "0", "1">>
D1 == <<"2", "0", "2", "4", "0", "1", "0", "1">>
D2 == <<"2", "0", "2", "4", "0", "1", "0", "2">>
DirA == <<"A">>
DirB == <<"B">>
DirC == <<"C">>
DirP == <<"P">>
DirX == <<"X">>

\* Where a file may be before the first call.
Slots ==
    { <<N_TS>>, <<DirA, N_TS>>, <<DirA, N_VID>>, <<DirB, N_SHOT>>, <<DirC, N_NOT>>,
      <<DirP, N_TS>>, <<DirP, N_KEY>>, <<DirP, D1, N_TS>>, <<DirP, D1, N_TS1>>,
      <<DirP, DirX, N_TS>> }

\* (search_root, destination_root): the destination inside the searched tree
\* (as main calls it), outside it, and the searched tree itself.
Configs ==
    { [search |-> <<>>, dest |-> <<DirP>>],
      [search |-> <<DirA>>, dest |-> <<DirP>>],
      [search |-> <<DirP>>, dest |-> <<DirP>>] }

MaxFiles == 3

\* A set of file paths is a tree when no file is an ancestor of another.
IsTree(S) == \A p \in S, q \in S : p \notin Parents(q)

\* The content of a file is named by the path it has before the first call.
TreeFiles(S) == [p \in S |-> p]
TreeDirs(S, extra) == UNION {Parents(p) : p \in S} \cup UNION {Prefixes(d) : d \in extra}

Init ==
    /\ \E S \in SUBSET Slots, cfg \in Configs :
        /\ Cardinality(S) <= MaxFiles
        /\ IsTree(S)
        /\ files = TreeFiles(S)
        /\ dirs = TreeDirs(S, {cfg.search, cfg.dest})
        /\ search_root = cfg.search
        /\ destination_root = cfg.dest
        /\ initial = [dirs |-> TreeDirs(S, {cfg.search, cfg.dest}), files |-> TreeFiles(S)]
        /\ start = [dirs |-> TreeDirs(S, {cfg.search, cfg.dest}), files |-> TreeFiles(S),
                    prev |-> "idle"]
    /\ pc = "idle"
    /\ pendingDirs = {}
    /\ curDir = NoDir
    /\ snap = {}
    /\ entries = {}
    /\ moved = 0
    /\ skipped = 0
    /\ run = 0
    /\ hist = {}
    /\ mpc = "none"
    /\ logText = <<>>
    /\ filename = None
    /\ result = None

Next ==
    \/ Call
    \/ ListDir
    \/ WalkSubdir
    \/ WalkExcluded
    \/ ClassifyFile
    \/ FinishDir
    \/ Return
    \/ Kill

Spec == Init /\ [][Next]_vars

---------------------------------------------------------------------------
(* extract_date_from_name on its own: the names it is given *)

EX_TIMESTAMP == <<"2", "0", "2", "4", "1", "0", "1", "9", "_", "1", "1", "1", "5", "3", "5", ".", "j", "p", "g">>
EX_SCREENSHOT == <<"S", "c", "r", "e", "e", "n", "s", "h", "o", "t", "_", "2", "0", "2", "5", "0", "8", "3", "1", "_", "2", "0", "3", "2", "4", "0", "_", "L", "I", "N", "E", ".", "p", "n", "g">>
EX_VIDEO == <<"V", "i", "d", "e", "o", "C", "a", "p", "t", "u", "r", "e", "_", "2", "0", "2", "5", "1", "0", "2", "8", "_", "f", "o", "o", ".", "m", "p", "4">>
EX_RANDOM == <<"r", "a", "n", "d", "o", "m", "_", "p", "h", "o", "t", "o", ".", "j", "p", "g">>

PartPrefix ==
    { <<>>, <<"x">>, <<".">>,
      <<"S", "c", "r", "e", "e", "n", "s", "h", "o", "t", "_">>,
      <<"S", "C", "R", "E", "E", "N", "S", "H", "O", "T", "_">>,
      <<"S", "c", "r", "e", "e", "n", "s", "h", "o", "t">>,
      <<"V", "i", "d", "e", "o", "C", "a", "p", "t", "u", "r", "e", "_">>,
      <<"v", "i", "d", "e", "o", "c", "a", "p", "t", "u", "r", "e", "_">> }
PartDate == { <<"2", "0", "2", "4", "1", "0", "1", "9">>, <<"2", "0", "2", "4", "1", "0", "1">>, <<"2", "0", "2", "4", "1", "0", "1", "x">> }
PartTime == { <<>>, <<"_", "1", "1", "1">>, <<"_", "1", "1", "1", "5">>, <<"_", "1", "1", "1", "5", "3", "5">>, <<"_", "1", "1", "1", "5", "3", "5", "6">>, <<"-", "1", "1", "1", "5">> }
PartTail == { <<>>, <<"_">>, <<"_", "L">>, <<"x">>, <<"_", ".", "x">> }
PartExt == { <<>>, <<".">>, <<".", "j", "p", "g">> }

ExtractInputs ==
    {EX_TIMESTAMP, EX_SCREENSHOT, EX_VIDEO, EX_RANDOM}
    \cup {a \o b \o c \o d \o e :
            a \in PartPrefix, b \in PartDate, c \in PartTime, d \in PartTail, e \in PartExt}

InitExtract ==
    /\ filename \in ExtractInputs
    /\ result = None
    /\ pc = "arg"
    /\ dirs = {<<>>}
    /\ files = <<>>
    /\ search_root = <<>>
    /\ destination_root = <<>>
    /\ pendingDirs = {}
    /\ curDir = NoDir
    /\ snap = {}
    /\ entries = {}
    /\ moved = 0
    /\ skipped = 0
    /\ run = 0
    /\ hist = {}
    /\ start = [dirs |-> {<<>>}, files |-> <<>>, prev |-> "idle"]
    /\ initial = [dirs |-> {<<>>}, files |-> <<>>]
    /\ mpc = "none"
    /\ logText = <<>>

ExtractCall ==
    /\ pc = "arg"
    /\ result' = extract_date_from_name(filename)
    /\ pc' = "returned"
    /\ UNCHANGED <<dirs, files, search_root, destination_root, pendingDirs, curDir, snap,
                   entries, moved, skipped, run, hist, start, initial, mpc, logText,
                   filename>>

NextExtract == ExtractCall

SpecExtract == InitExtract /\ [][NextExtract]_vars

\* What the three rules say of a stem, stated position by position.
AllDigits(s, from, to) == \A i \in from..to : s[i] \in DigitChars
SameFolded(s, from, word) ==
    /\ Len(s) >= from + Len(word) - 1
    /\ \A i \in 1..Len(word) : Lower(s[from + i - 1]) = word[i]

\* 8 digits, an underscore, at least 4 digits, then anything
TimestampRule(s) ==
    /\ Len(s) >= 13
    /\ AllDigits(s, 1, 8)
    /\ s[9] = "_"
    /\ AllDigits(s, 10, 13)

\* screenshot_ in any case, 8 digits, _, 4 to 6 digits, _, at least one character
ScreenshotRule(s) ==
    /\ SameFolded(s, 1, <<"s", "c", "r", "e", "e", "n", "s", "h", "o", "t", "_">>)
    /\ Len(s) >= 20
    /\ AllDigits(s, 12, 19)
    /\ s[20] = "_"
    /\ \E k \in 4..6 :
        /\ Len(s) >= 22 + k
        /\ AllDigits(s, 21, 20 + k)
        /\ s[21 + k] = "_"

\* videocapture_ in any case, 8 digits, then anything
VideoCaptureRule(s) ==
    /\ SameFolded(s, 1, <<"v", "i", "d", "e", "o", "c", "a", "p", "t", "u", "r", "e", "_">>)
    /\ Len(s) >= 21
    /\ AllDigits(s, 14, 21)

\* The name without its final extension: cut at the last dot, unless that dot
\* is the first or the last character.
StrippedName(name) ==
    LET dots == {i \in 2..(Len(name) - 1) : name[i] = "."}
        lastDot == Len(name) \in DOMAIN name /\ name[Len(name)] = "."
    IN  IF dots = {} \/ lastDot THEN name
        ELSE SubSeq(name, 1, (CHOOSE i \in dots : \A j \in dots : j <= i) - 1)

RuleDate(name) ==
    LET s == StrippedName(name)
    IN  IF TimestampRule(s) THEN SubSeq(s, 1, 8)
        ELSE IF ScreenshotRule(s) THEN SubSeq(s, 12, 19)
        ELSE IF VideoCaptureRule(s) THEN SubSeq(s, 14, 21)
        ELSE None

\* C7: extract_date_from_name returns the 8 digits captured by the first of the
\* timestamp, screenshot and video-capture rules that matches the whole name
\* without its final extension, and None when none matches; the four named
\* examples give 20241019, 20250831, 20251028 and None.
C7_ExtractFollowsRules ==
    pc = "returned" =>
        /\ result = RuleDate(filename)
        /\ result # None => Len(result) = 8 /\ AllDigits(result, 1, 8)
        /\ filename = EX_TIMESTAMP => result = <<"2", "0", "2", "4", "1", "0", "1", "9">>
        /\ filename = EX_SCREENSHOT => result = <<"2", "0", "2", "5", "0", "8", "3", "1">>
        /\ filename = EX_VIDEO => result = <<"2", "0", "2", "5", "1", "0", "2", "8">>
        /\ filename = EX_RANDOM => result = None

C7_Witness ==
    /\ pc = "returned"
    /\ filename = EX_SCREENSHOT
    /\ result = <<"2", "0", "2", "5", "0", "8", "3", "1">>

---------------------------------------------------------------------------
(* What the claims about classify_photos speak of *)

\* path lies below dir
Under(path, dir) == Len(path) > Len(dir) /\ SubSeq(path, 1, Len(dir)) = dir

\* The files of a tree that are under search_root and whose parent directory
\* is destination_root itself or lies outside it.
Candidates(tree) ==
    {p \in DOMAIN tree.files :
        /\ Under(p, search_root)
        /\ \/ Parent(p) = destination_root
           \/ ~(Parent(p) = destination_root \/ Under(Parent(p), destination_root))}

RunEvents == {e \in hist : e.run = run}
Yielded == {e.src : e \in RunEvents}
MovedIn(r) == {e \in hist : e.run = r /\ e.kind = "moved"}

\* name with _N put between its stem and its extension
Disambiguated(name, N) ==
    LET stem == StrippedName(name)
    IN  stem \o <<"_">> \o DecStr(N) \o SubSeq(name, Len(stem) + 1, Len(name))

\* C1: when classify_photos has returned, every file it was yielded whose name
\* has a Date Key D is directly inside destination_root/D, and every yielded
\* file whose name has none is still at its path.
C1_YieldedFilesSorted ==
    pc = "done" =>
        \A e \in RunEvents :
            LET key == RuleDate(PathName(e.src))
            IN  IF key = None
                THEN e.src \in DOMAIN files /\ files[e.src] = e.content
                ELSE \E p \in DOMAIN files :
                        /\ files[p] = e.content
                        /\ Parent(p) = Append(destination_root, key)

C1_Witness ==
    /\ pc = "done"
    /\ run = 1
    /\ \E e \in RunEvents : e.kind = "skipped"
    /\ \E e \in RunEvents : e.kind = "moved" /\ PathName(e.dst) # PathName(e.src)
    /\ \E e \in RunEvents : e.kind = "moved" /\ PathName(e.dst) = PathName(e.src)

\* C2: a call that follows a call that returned, on the tree that call left,
\* moves nothing: moved stays 0 and no path of the tree changes.
C2_SecondRunMovesNothing ==
    (run >= 2 /\ start.prev = "done") =>
        /\ moved = 0
        /\ files = start.files
        /\ dirs = start.dirs

C2_Witness ==
    /\ run = 2
    /\ pc = "done"
    /\ start.prev = "done"
    /\ start.files # initial.files
    /\ skipped > 0

\* C3: a step that moves a file never lands on a path that existed, leaves
\* every other file where and as it was, and, when dest_dir/<name> existed,
\* lands on dest_dir/<stem>_N<ext> for the smallest N >= 1 that was free.
C3_CollisionSafe ==
    [][moved' = moved + 1 =>
        \E e \in hist' \ hist :
            LET dest_dir == Parent(e.dst)
                name == PathName(e.src)
                taken == dirs \cup DOMAIN files
            IN  /\ e.kind = "moved"
                /\ e.dst \notin taken
                /\ e.src \notin DOMAIN files'
                /\ files'[e.dst] = files[e.src]
                /\ \A p \in DOMAIN files \ {e.src} :
                        p \in DOMAIN files' /\ files'[p] = files[p]
                /\ Append(dest_dir, name) \in taken =>
                        \E N \in 1..(Cardinality(taken) + 1) :
                            /\ PathName(e.dst) = Disambiguated(name, N)
                            /\ \A M \in 1..(N - 1) :
                                    Append(dest_dir, Disambiguated(name, M)) \in taken
    ]_vars

C3_Witness ==
    \E e \in hist :
        /\ e.kind = "moved"
        /\ Append(Parent(e.dst), PathName(e.src)) \in e.before
        /\ PathName(e.dst) = Disambiguated(PathName(e.src), 2)

\* C4: in every state the tree holds exactly the files it held before the
\* first call, each once: none deleted, duplicated or overwritten.
C4_Conservation ==
    /\ {files[p] : p \in DOMAIN files} = {initial.files[p] : p \in DOMAIN initial.files}
    /\ Cardinality(DOMAIN files) = Cardinality(DOMAIN initial.files)
    /\ \A p \in DOMAIN files, q \in DOMAIN files : files[p] = files[q] => p = q

C4_Witness ==
    /\ pc = "walk"
    /\ Cardinality({p \in DOMAIN files : files[p] # p}) >= 2
    /\ \E e \in RunEvents : e.kind = "moved" /\ PathName(e.dst) # PathName(e.src)

\* C5: the discovery of a call yields only files, each a file under the root
\* whose parent is the exclusion directory itself or outside it, none whose
\* parent is below the exclusion directory; once exhausted it has yielded all
\* of those.
C5_DiscoveryExclusion ==
    /\ Yielded \subseteq Candidates(start)
    /\ \A p \in Yielded : p \notin start.dirs
    /\ \A p \in Yielded : ~Under(Parent(p), destination_root)
    /\ pc = "done" => Yielded = Candidates(start)

C5_Witness ==
    /\ pc = "done"
    /\ run = 1
    /\ \E p \in Yielded : Parent(p) = destination_root
    /\ \E p \in Yielded : Parent(p) # destination_root
    /\ \E p \in DOMAIN start.files :
            Under(p, search_root) /\ Under(Parent(p), destination_root)

\* The scenario of the specification: two matching files and one that does
\* not match, under the working root, with an empty output root.
Scenario ==
    /\ DOMAIN initial.files = {<<DirA, N_TS>>, <<DirB, N_SHOT>>, <<DirC, N_NOT>>}
    /\ search_root = <<>>
    /\ destination_root = <<DirP>>

\* C6: when a call has returned, moved is the number of files of the tree it
\* started on that are candidates and have a Date Key, skipped the number of
\* candidates that have none (2 and 1 in the scenario), whatever the order of
\* the walk; no file is yielded twice in a call.
C6_Counters ==
    /\ \A e1 \in RunEvents, e2 \in RunEvents : e1.content = e2.content => e1 = e2
    /\ pc = "done" =>
        /\ moved = Cardinality({p \in Candidates(start) : RuleDate(PathName(p)) # None})
        /\ skipped = Cardinality({p \in Candidates(start) : RuleDate(PathName(p)) = None})
        /\ (Scenario /\ run = 1) => (moved = 2 /\ skipped = 1)

C6_Witness ==
    /\ Scenario
    /\ run = 1
    /\ pc = "done"
    /\ moved = 2
    /\ skipped = 1
    /\ \A p \in DOMAIN files : RuleDate(PathName(p)) # None => Parent(p) = <<DirP, D1>>

\* The files of the tree the call started on that are already sorted: under
\* search_root, with a Date Key D, directly inside destination_root/D.
SortedAtStart ==
    {p \in DOMAIN start.files :
        /\ Under(p, search_root)
        /\ RuleDate(PathName(p)) # None
        /\ Parent(p) = Append(destination_root, RuleDate(PathName(p)))}

C10_Recovery ==
    /\ pc \in {"killed", "raised"} =>
            \A e \in MovedIn(run) : e.dst \in DOMAIN files /\ files[e.dst] = e.content
    /\ (run = 2 /\ start.prev \in {"killed", "raised"}) =>
            \A e \in MovedIn(1) : e.dst \in DOMAIN files /\ files[e.dst] = e.content
    /\ (run = 2 /\ start.prev \in {"killed", "raised"} /\ pc = "done") =>
        LET matching == {p \in Candidates(initial) : RuleDate(PathName(p)) # None}
        IN  /\ {e.content : e \in MovedIn(2)}
                 = matching \ {e.content : e \in MovedIn(1)}
            /\ moved = Cardinality(matching \ {e.content : e \in MovedIn(1)})
            /\ \A p \in matching :
                    \E q \in DOMAIN files :
                        /\ files[q] = p
                        /\ Parent(q) = Append(destination_root, RuleDate(PathName(p)))
            /\ \A e1 \in MovedIn(1) \cup MovedIn(2), e2 \in MovedIn(1) \cup MovedIn(2) :
                    e1.content = e2.content => e1 = e2

C10_Witness ==
    /\ run = 2
    /\ start.prev = "killed"
    /\ pc = "done"
    /\ MovedIn(1) # {}
    /\ MovedIn(2) # {}

---------------------------------------------------------------------------
(* main and its Logger *)

\* The two folder names are Chinese words in the source; the module writes
\* them in ASCII.  Neither matches a pattern.
ROOT_FOLDER_NAME == <<"Y", "u", "a", "n", "X", "i", "u", "D", "a", "n", "g", "A", "n">>
PHOTOS_FOLDER_NAME == <<"Z", "h", "a", "o", "P", "i", "a", "n">>
LOG_FILE_NAME == <<"p", "h", "o", "t", "o", "_", "s", "o", "r", "t", "e", "r", ".", "l", "o", "g">>

\* app_dir is the root of the tree
app_dir == <<>>
log_file_path == Append(app_dir, LOG_FILE_NAME)
root_folder == Append(app_dir, ROOT_FOLDER_NAME)
photos_folder == Append(root_folder, PHOTOS_FOLDER_NAME)

Line(tag, n) == [tag |-> tag, n |-> n]

\* open(log_file_path, "a"): the file is created when it is not there
OpenAppend(f, path) ==
    IF path \in DOMAIN f THEN f
    ELSE [p \in DOMAIN f \cup {path} |-> IF p = path THEN path ELSE f[p]]

\* Logger.__enter__: the header of the run
LoggerEnter(text) == text \o <<Line("rule", 0), Line("start", 0), Line("rule", 0)>>
\* Logger.__exit__: the footer of the run
LoggerExit(text) == text \o <<Line("end", 0), Line("rule", 0)>>
\* Logger.log: one line
LoggerLog(text, tag, n) == Append(text, Line(tag, n))

\* A variant that tests the working directory instead.
WorkingDirExists(d, f) == Exists(d, f, app_dir)

\* root_folder.exists()
RootFolderExists(d, f) == Exists(d, f, root_folder)

\* with Logger(log_file_path) as logger: logger.log(working directory)
MainEnter ==
    /\ mpc = "start"
    /\ files' = OpenAppend(files, log_file_path)
    /\ logText' = LoggerLog(LoggerEnter(logText), "cwd", 0)
    /\ mpc' = "entered"
    /\ UNCHANGED <<dirs, search_root, destination_root, pc, pendingDirs, curDir, snap,
                   entries, moved, skipped, run, hist, start, initial, filename, result>>

\* if not root_folder.exists(): log the error, raise RuntimeError; __exit__ runs
MainMissingRoot ==
    /\ mpc = "entered"
    /\ ~RootFolderExists(dirs, files)
    /\ logText' = LoggerExit(LoggerLog(logText, "error", 0))
    /\ mpc' = "failed"
    /\ UNCHANGED <<dirs, files, search_root, destination_root, pc, pendingDirs, curDir,
                   snap, entries, moved, skipped, run, hist, start, initial, filename,
                   result>>

\* photos_folder.mkdir(parents=True, exist_ok=True)
MainMkdir ==
    /\ mpc = "entered"
    /\ RootFolderExists(dirs, files)
    /\ IF MkdirOk(files, photos_folder)
       THEN /\ dirs' = Mkdir(dirs, photos_folder)
            /\ mpc' = "mkdir"
            /\ UNCHANGED logText
       ELSE /\ logText' = LoggerExit(logText)
            /\ mpc' = "failed"
            /\ UNCHANGED dirs
    /\ UNCHANGED <<files, search_root, destination_root, pc, pendingDirs, curDir, snap,
                   entries, moved, skipped, run, hist, start, initial, filename, result>>

\* classify_photos(app_dir, photos_folder)
MainCall ==
    /\ mpc = "mkdir"
    /\ search_root' = app_dir
    /\ destination_root' = photos_folder
    /\ run' = run + 1
    /\ moved' = 0
    /\ skipped' = 0
    /\ pendingDirs' = {app_dir}
    /\ curDir' = NoDir
    /\ snap' = {}
    /\ entries' = {}
    /\ start' = [dirs |-> dirs, files |-> files, prev |-> pc]
    /\ pc' = "walk"
    /\ mpc' = "classify"
    /\ UNCHANGED <<dirs, files, hist, initial, logText, filename, result>>

\* the two lines of totals, then __exit__
MainReport ==
    /\ mpc = "classify"
    /\ pc = "done"
    /\ logText' = LoggerExit(LoggerLog(LoggerLog(logText, "moved", moved), "skipped", skipped))
    /\ mpc' = "exit"
    /\ UNCHANGED <<dirs, files, search_root, destination_root, pc, pendingDirs, curDir,
                   snap, entries, moved, skipped, run, hist, start, initial, filename,
                   result>>

\* an exception of move_file leaves the with block: __exit__ runs
MainPropagate ==
    /\ mpc = "classify"
    /\ pc = "raised"
    /\ logText' = LoggerExit(logText)
    /\ mpc' = "failed"
    /\ UNCHANGED <<dirs, files, search_root, destination_root, pc, pendingDirs, curDir,
                   snap, entries, moved, skipped, run, hist, start, initial, filename,
                   result>>

\* Where a file may be before main runs.
MainSlots ==
    { <<N_TS>>, <<DirA, N_TS>>, <<DirC, N_NOT>>, log_file_path,
      Append(root_folder, N_TS), Append(photos_folder, N_TS),
      Append(photos_folder, N_KEY), photos_folder \o <<D1, N_TS>> }

InitMain ==
    /\ \E S \in SUBSET MainSlots, extra \in {app_dir, root_folder, photos_folder} :
        /\ Cardinality(S) <= MaxFiles
        /\ IsTree(S)
        /\ files = TreeFiles(S)
        /\ dirs = TreeDirs(S, {extra})
        /\ initial = [dirs |-> TreeDirs(S, {extra}), files |-> TreeFiles(S)]
        /\ start = [dirs |-> TreeDirs(S, {extra}), files |-> TreeFiles(S), prev |-> "idle"]
        /\ logText = IF log_file_path \in S THEN <<Line("old", 0)>> ELSE <<>>
    /\ search_root = app_dir
    /\ destination_root = photos_folder
    /\ mpc = "start"
    /\ pc = "idle"
    /\ pendingDirs = {}
    /\ curDir = NoDir
    /\ snap = {}
    /\ entries = {}
    /\ moved = 0
    /\ skipped = 0
    /\ run = 0
    /\ hist = {}
    /\ filename = None
    /\ result = None

NextMain ==
    \/ MainEnter
    \/ MainMissingRoot
    \/ MainMkdir
    \/ MainCall
    \/ ListDir
    \/ WalkSubdir
    \/ WalkExcluded
    \/ ClassifyFile
    \/ FinishDir
    \/ Return
    \/ MainReport
    \/ MainPropagate

SpecMain == InitMain /\ [][NextMain]_vars

\* The expected root folder is absent when main starts.
RootAbsent == root_folder \notin initial.dirs /\ root_folder \notin DOMAIN initial.files

InitialLog == IF log_file_path \in DOMAIN initial.files THEN <<Line("old", 0)>> ELSE <<>>

\* C8 as stated: with the root folder absent, main fails having created or
\* written no file and no directory.
C8_AsStated ==
    (RootAbsent /\ mpc = "failed") =>
        /\ dirs = initial.dirs
        /\ files = initial.files
        /\ logText = InitialLog

\* C8, amended: with the root folder absent, main creates, moves and renames
\* nothing but its log file: every directory and every other file stays as it
\* was and classify_photos is never called; the log file is created when it was
\* missing and the run's header, the working directory, the error and the
\* footer are appended to it.
C8_OnlyLogWritten ==
    RootAbsent =>
        /\ dirs = initial.dirs
        /\ DOMAIN files \subseteq DOMAIN initial.files \cup {log_file_path}
        /\ \A p \in DOMAIN initial.files : p \in DOMAIN files /\ files[p] = initial.files[p]
        /\ run = 0 /\ pc = "idle" /\ hist = {}
        /\ mpc \in {"start", "entered", "failed"}
        /\ mpc = "failed" =>
            /\ log_file_path \in DOMAIN files
            /\ logText = InitialLog \o <<Line("rule", 0), Line("start", 0), Line("rule", 0),
                                         Line("cwd", 0), Line("error", 0), Line("end", 0),
                                         Line("rule", 0)>>

C8_Witness ==
    /\ RootAbsent
    /\ mpc = "failed"
    /\ log_file_path \notin DOMAIN initial.files
    /\ log_file_path \in DOMAIN files
    /\ Cardinality(DOMAIN initial.files) >= 2

===========================================================================
